---- MODULE Spec2Model ----
(***************************************************************************)
(* Channel health management of the API gateway:                           *)
(*   service/channel.go  - DisableChannel, EnableChannel,                  *)
(*                         ShouldDisableChannel, ShouldEnableChannel       *)
(*   service/webhook.go  - SendWebhookNotify and its helpers               *)
(*   types/channel_error.go - ChannelError                                 *)
(* Three specifications share the variables: SpecChannel (the controller   *)
(* run by concurrent callers against the store), SpecClassify (the two     *)
(* pure classifiers) and SpecWebhook (one webhook delivery, step by step). *)
(***************************************************************************)
EXTENDS Integers, Sequences, FiniteSets, TLC

VARIABLES
    chanStatus,   \* channel id -> stored status (the store's row)
    pc,           \* caller -> "idle" | "updated" | "done"
    call,         \* caller -> the call it runs (op, ChannelId, AutoBan)
    storeCalls,   \* caller -> number of UpdateChannelStatus calls it made
    success,      \* caller -> what UpdateChannelStatus returned to it
    notes,        \* caller -> notify-type keys it handed to NotifyRootUser
    cls,          \* last classifier call: inputs and verdict
    wpc,          \* position of the SendWebhookNotify call
    win,          \* inputs and environment of the SendWebhookNotify call
    wst,          \* locals of SendWebhookNotify (content, payload, url, req, resp)
    events,       \* external calls made by SendWebhookNotify, in order
    ret           \* what SendWebhookNotify returned

chanVars == <<chanStatus, pc, call, storeCalls, success, notes>>
clsVars  == <<cls>>
webVars  == <<wpc, win, wst, events, ret>>
vars     == <<chanStatus, pc, call, storeCalls, success, notes, cls, wpc, win, wst, events, ret>>

----------------------------------------------------------------------------
(* Bounds *)
MaxProcs    == 2      \* concurrent callers of DisableChannel / EnableChannel
MaxChannel  == 2      \* number of channels; their ids start at 5
MaxMsgLen   == 2      \* length of an error message, in characters

Procs    == 1..MaxProcs
Channels == 5..(MaxChannel + 4)

----------------------------------------------------------------------------
(* Constants of the program *)
ChannelStatusEnabled          == 1
ChannelStatusManuallyDisabled == 2
ChannelStatusAutoDisabled     == 3
Statuses == {ChannelStatusEnabled, ChannelStatusManuallyDisabled, ChannelStatusAutoDisabled}

NotifyTypeChannelUpdate == "channel_update"

----------------------------------------------------------------------------
(* service/channel.go *)

\* Strings the code searches or takes prefixes of are sequences of fragments.
\* fmt.Sprintf("%s_%d_%d", dto.NotifyTypeChannelUpdate, channelId, status)
formatNotifyType(channelId, status) ==
    <<NotifyTypeChannelUpdate, "_", ToString(channelId), "_", ToString(status)>>

\* types.ChannelError, restricted to the fields that decide control flow
\* (ChannelName, UsingKey, Tag and the reason only reach log and message text).
ChannelErrors == [ChannelId : Channels, AutoBan : BOOLEAN]

\* The results model.UpdateChannelStatus can report for a target status:
\* never applied when the stored status already is the target; otherwise
\* applied, or not applied when the write fails or the channel is gone.
\* The store is atomic per channel; keys of a multi-key channel are not
\* distinguished.
StoreOutcomes(channelId, status) ==
    IF chanStatus[channelId] = status THEN {FALSE} ELSE {TRUE, FALSE}

\* model.UpdateChannelStatus as one atomic step of caller p.
UpdateChannelStatus(p, channelId, status, ok) ==
    /\ ok \in StoreOutcomes(channelId, status)
    /\ chanStatus' = IF ok THEN [chanStatus EXCEPT ![channelId] = status] ELSE chanStatus
    /\ storeCalls' = [storeCalls EXCEPT ![p] = @ + 1]
    /\ success' = [success EXCEPT ![p] = ok]

\* NotifyRootUser(key, subject, content): the hand-off to the router.
NotifyRootUser(p, key) ==
    notes' = [notes EXCEPT ![p] = Append(@, key)]

\* DisableChannel up to and including the store call.
DisableChannel_NoBanCheck(p, channelError) ==
    /\ pc[p] = "idle"
    /\ call' = [call EXCEPT ![p] = [op |-> "disable", ChannelId |-> channelError.ChannelId,
                                     AutoBan |-> channelError.AutoBan,
                                     status |-> ChannelStatusAutoDisabled]]
    /\ \E ok \in BOOLEAN :
          UpdateChannelStatus(p, channelError.ChannelId, ChannelStatusAutoDisabled, ok)
    /\ pc' = [pc EXCEPT ![p] = "updated"]
    /\ UNCHANGED notes

DisableChannel(p, channelError) ==
    /\ pc[p] = "idle"
    /\ call' = [call EXCEPT ![p] = [op |-> "disable", ChannelId |-> channelError.ChannelId,
                                     AutoBan |-> channelError.AutoBan,
                                     status |-> ChannelStatusAutoDisabled]]
    /\ IF ~channelError.AutoBan
         THEN /\ pc' = [pc EXCEPT ![p] = "done"]
              /\ UNCHANGED <<chanStatus, storeCalls, success, notes>>
         ELSE /\ \E ok \in BOOLEAN :
                    UpdateChannelStatus(p, channelError.ChannelId, ChannelStatusAutoDisabled, ok)
              /\ pc' = [pc EXCEPT ![p] = "updated"]
              /\ UNCHANGED notes

\* EnableChannel up to and including the store call.
EnableChannel(p, channelId) ==
    /\ pc[p] = "idle"
    /\ call' = [call EXCEPT ![p] = [op |-> "enable", ChannelId |-> channelId,
                                     AutoBan |-> TRUE,
                                     status |-> ChannelStatusEnabled]]
    /\ \E ok \in BOOLEAN :
          UpdateChannelStatus(p, channelId, ChannelStatusEnabled, ok)
    /\ pc' = [pc EXCEPT ![p] = "updated"]
    /\ UNCHANGED notes

\* `if success { ... NotifyRootUser(formatNotifyType(id, status), ...) }`
\* of both DisableChannel and EnableChannel, then return.
NotifyOnSuccess_Always(p) ==
    /\ pc[p] = "updated"
    /\ NotifyRootUser(p, formatNotifyType(call[p].ChannelId, call[p].status))
    /\ pc' = [pc EXCEPT ![p] = "done"]
    /\ UNCHANGED <<chanStatus, call, storeCalls, success>>

NotifyOnSuccess_Twice(p) ==
    /\ pc[p] = "updated"
    /\ IF success[p]
         THEN notes' = [notes EXCEPT ![p] =
                 @ \o << formatNotifyType(call[p].ChannelId, call[p].status),
                         formatNotifyType(call[p].ChannelId, call[p].status) >>]
         ELSE UNCHANGED notes
    /\ pc' = [pc EXCEPT ![p] = "done"]
    /\ UNCHANGED <<chanStatus, call, storeCalls, success>>

NotifyOnSuccess(p) ==
    /\ pc[p] = "updated"
    /\ IF success[p]
         THEN NotifyRootUser(p, formatNotifyType(call[p].ChannelId, call[p].status))
         ELSE UNCHANGED notes
    /\ pc' = [pc EXCEPT ![p] = "done"]
    /\ UNCHANGED <<chanStatus, call, storeCalls, success>>

NoCall == [op |-> "none", ChannelId |-> 5, AutoBan |-> FALSE,
           status |-> ChannelStatusEnabled]

InitChannelPart ==
    /\ pc = [p \in Procs |-> "idle"]
    /\ call = [p \in Procs |-> NoCall]
    /\ storeCalls = [p \in Procs |-> 0]
    /\ success = [p \in Procs |-> FALSE]
    /\ notes = [p \in Procs |-> << >>]

----------------------------------------------------------------------------
(* The classifiers: ShouldDisableChannel and ShouldEnableChannel *)

StatusUnauthorized == 401
StatusForbidden    == 403
ChannelTypeOpenAI    == 1
ChannelTypeAnthropic == 14
ChannelTypeGemini    == 24

ChannelTypes == {ChannelTypeOpenAI, ChannelTypeAnthropic, ChannelTypeGemini}
ErrStatusCodes == {StatusUnauthorized, StatusForbidden, 500}

DisableCodes == {"invalid_api_key", "account_deactivated", "billing_not_active",
                 "pre_consume_token_quota_failed", "Arrearage"}
DisableTypes == {"insufficient_quota", "insufficient_user_quota",
                 "authentication_error", "permission_error", "forbidden"}
ErrCodes == DisableCodes \cup {"rate_limit_exceeded"}
ErrTypes == DisableTypes \cup {"server_error"}

\* Error messages are character sequences over a small alphabet with both cases.
Alphabet == {"A", "a", "b"}
Messages == UNION {[1..n -> Alphabet] : n \in 0..MaxMsgLen}
KeywordLists == { {}, {<<"a", "b">>}, {<<"a">>, <<"b", "b">>} }

\* *types.NewAPIError: nil, or an error with its flags, status and the fields of
\* its normalized (OpenAI-style) form.
NewAPIErrors ==
    [nil : {FALSE}, channelLevel : BOOLEAN, skipRetry : BOOLEAN,
     StatusCode : ErrStatusCodes, Code : ErrCodes, Type : ErrTypes, Message : Messages]
NilError == [nil |-> TRUE, channelLevel |-> FALSE, skipRetry |-> FALSE,
             StatusCode |-> 500, Code |-> "rate_limit_exceeded", Type |-> "server_error",
             Message |-> << >>]

IsChannelError(err)   == ~err.nil /\ err.channelLevel
IsSkipRetryError(err) == ~err.nil /\ err.skipRetry
ToOpenAIError(err)    == [Code |-> err.Code, Type |-> err.Type]

LowerChar(c) == IF c = "A" THEN "a" ELSE c
ToLower(s)   == [i \in 1..Len(s) |-> LowerChar(s[i])]
Contains(s, sub) ==
    \E i \in 1..(Len(s) + 1) :
        /\ i + Len(sub) - 1 <= Len(s)
        /\ SubSeq(s, i, i + Len(sub) - 1) = sub
\* AcSearch(text, dict, true): whether some word of dict occurs in text.
AcSearch(text, dict) == \E w \in dict : Contains(text, w)

ShouldDisableChannel_SkipFirst(disableEnabled, keywords, channelType, err) ==
    IF ~disableEnabled THEN FALSE
    ELSE IF err.nil THEN FALSE
    ELSE IF IsSkipRetryError(err) THEN FALSE
    ELSE IF IsChannelError(err) THEN TRUE
    ELSE IF err.StatusCode = StatusUnauthorized THEN TRUE
    ELSE IF err.StatusCode = StatusForbidden /\ channelType = ChannelTypeGemini THEN TRUE
    ELSE IF ToOpenAIError(err).Code \in DisableCodes THEN TRUE
    ELSE IF ToOpenAIError(err).Type \in DisableTypes THEN TRUE
    ELSE AcSearch(ToLower(err.Message), keywords)

\* disableEnabled is common.AutomaticDisableChannelEnabled, keywords is
\* operation_setting.AutomaticDisableKeywords.
ShouldDisableChannel(disableEnabled, keywords, channelType, err) ==
    IF ~disableEnabled THEN FALSE
    ELSE IF err.nil THEN FALSE
    ELSE IF IsChannelError(err) THEN TRUE
    ELSE IF IsSkipRetryError(err) THEN FALSE
    ELSE IF err.StatusCode = StatusUnauthorized THEN TRUE
    ELSE IF err.StatusCode = StatusForbidden /\ channelType = ChannelTypeGemini THEN TRUE
    ELSE IF ToOpenAIError(err).Code \in DisableCodes THEN TRUE
    ELSE IF ToOpenAIError(err).Type \in DisableTypes THEN TRUE
    ELSE AcSearch(ToLower(err.Message), keywords)

ShouldEnableChannel_IgnoreStatus(enableEnabled, newAPIError, status) ==
    IF ~enableEnabled THEN FALSE
    ELSE IF ~newAPIError.nil THEN FALSE
    ELSE TRUE

\* enableEnabled is common.AutomaticEnableChannelEnabled.
ShouldEnableChannel(enableEnabled, newAPIError, status) ==
    IF ~enableEnabled THEN FALSE
    ELSE IF ~newAPIError.nil THEN FALSE
    ELSE IF status # ChannelStatusAutoDisabled THEN FALSE
    ELSE TRUE

\* The classifier calls a behaviour can start with: the function, its
\* arguments and the switches are drawn, the verdict is still to be computed.
DisableCalls ==
    [fn : {"disable"}, done : {FALSE}, switch : BOOLEAN, keywords : KeywordLists,
     channelType : ChannelTypes, err : NewAPIErrors \cup {NilError},
     status : {ChannelStatusEnabled}, result : {FALSE}]
EnableCalls ==
    [fn : {"enable"}, done : {FALSE}, switch : BOOLEAN, keywords : {{}},
     channelType : {ChannelTypeOpenAI}, err : NewAPIErrors \cup {NilError},
     status : Statuses, result : {FALSE}]

NoClassify == [fn |-> "none", done |-> TRUE, switch |-> FALSE, keywords |-> {},
               channelType |-> ChannelTypeOpenAI, err |-> NilError,
               status |-> ChannelStatusEnabled, result |-> FALSE]

InitClassifyPart == cls = NoClassify

\* The call of ShouldDisableChannel; the verdict is recorded.
CallShouldDisable ==
    /\ cls.fn = "disable" /\ ~cls.done
    /\ cls' = [cls EXCEPT !.done = TRUE,
                          !.result = ShouldDisableChannel(cls.switch, cls.keywords,
                                                          cls.channelType, cls.err)]
    /\ UNCHANGED <<chanVars, webVars>>

\* The call of ShouldEnableChannel; the verdict is recorded.
CallShouldEnable ==
    /\ cls.fn = "enable" /\ ~cls.done
    /\ cls' = [cls EXCEPT !.done = TRUE,
                          !.result = ShouldEnableChannel(cls.switch, cls.err, cls.status)]
    /\ UNCHANGED <<chanVars, webVars>>

----------------------------------------------------------------------------
(* service/webhook.go *)

\* The clock at the call, in seconds and in milliseconds.
Now   == 1700000                \* time.Now().Unix()
NowMs == Now * 1000 + 123       \* time.Now().UnixNano() / 1e6

\* A webhook URL, kept in its parts; the code sees URLString(u).
OapiDingTalk == <<"o", "api.dingtalk.com">>
ApiDingTalk  == <<"api.dingtalk.com">>
ChatBotDomains == {OapiDingTalk, ApiDingTalk}
UrlHosts   == {OapiDingTalk, ApiDingTalk, <<"example.com">>, <<"%zz">>}
UrlPaths   == {<<"/robot/send">>, <<"/hook/", "api.dingtalk.com">>}
UrlQueries == {<< >>, <<"?", "access_token=x">>, <<"?", "to=", "o", "api.dingtalk.com">>}
WebhookURLs == [scheme : {<<"https://">>}, host : UrlHosts, path : UrlPaths, query : UrlQueries]
URLString(u) == u.scheme \o u.host \o u.path \o u.query
\* url.Parse inside http.NewRequest rejects an invalid escape in the host.
ParseOK(u) == \A i \in 1..Len(u.host) : u.host[i] # "%zz"

Secrets  == {"", "s3cret"}
NotifyTypes    == {formatNotifyType(5, ChannelStatusAutoDisabled), <<"quota_exceed">>}
NotifyTitles   == {<< >>, <<"Alert">>}
NotifyContents == {<<"a", "\r\n", "b", "\n", "c">>, <<"used ", "%s">>,
                   <<"%s", " of ", "%s">>, <<"plain">>}
\* data.Values holds at most one value here; "chan" is a value json.Marshal rejects.
NotifyValues   == {<< >>, <<"v">>, <<"chan">>}
Notifies == [Type : NotifyTypes, Title : NotifyTitles, Content : NotifyContents,
             Values : NotifyValues]

RespStatusCodes == {199, 200, 204, 299, 300, 404, 500}

HasPrefix(s, prefix) ==
    Len(s) >= Len(prefix) /\ SubSeq(s, 1, Len(prefix)) = prefix

RECURSIVE Flatten(_)
Flatten(ss) == IF ss = << >> THEN << >> ELSE Head(ss) \o Flatten(Tail(ss))

\* strings.ReplaceAll on fragments: each fragment equal to old becomes new.
ReplaceAll(s, old, new) ==
    Flatten([i \in 1..Len(s) |-> IF s[i] = old THEN new ELSE <<s[i]>>])

\* fmt.Sprintf(content, value) with one operand: the first verb takes the value,
\* every later verb has no operand, and an operand without verb is reported.
FormatValue(v) == IF v = "chan" THEN "0xc000010000" ELSE v
TypeName(v)    == IF v = "chan" THEN "chan int" ELSE "string"
Verbs(content) == {i \in 1..Len(content) : content[i] = "%s"}
Sprintf(content, value) ==
    IF Verbs(content) = {}
      THEN Append(content, "%!(EXTRA " \o TypeName(value) \o "=" \o FormatValue(value) \o ")")
      ELSE LET first == CHOOSE i \in Verbs(content) : \A j \in Verbs(content) : i <= j
           IN [i \in 1..Len(content) |->
                 IF i = first THEN FormatValue(value)
                 ELSE IF i \in Verbs(content) THEN "%!s(MISSING)"
                 ELSE content[i]]

RECURSIVE Substitute(_, _)
Substitute(content, values) ==
    IF values = << >> THEN content
    ELSE Substitute(Sprintf(content, Head(values)), Tail(values))

generateSignature(secret, payload) ==
    "hex(hmac-sha256(" \o secret \o "," \o ToString(payload) \o "))"

isDingTalkWebhook(u) ==
    Contains(URLString(u), OapiDingTalk) \/ Contains(URLString(u), ApiDingTalk)

generateDingTalkSign(secret, timestamp) ==
    "base64(hmac-sha256(" \o secret \o "," \o ToString(timestamp) \o "\n" \o secret \o "))"

QueryEscape(s) == "urlenc(" \o s \o ")"

\* The DingTalk markdown text of lines 88-98.
DingTalkText(data, content) ==
    LET dingTalkContent == ReplaceAll(ReplaceAll(content, "\r\n", <<"\n">>), "\n", <<"  \n">>)
        includeTitle == data.Title # << >> /\ ~HasPrefix(data.Type, <<NotifyTypeChannelUpdate>>)
    IN IF includeTitle THEN <<"### ">> \o data.Title \o <<"\n\n">> \o dingTalkContent
       ELSE dingTalkContent

DingTalkPayload(data, content) ==
    [schema |-> "dingtalk", msgtype |-> "markdown", type |-> << >>, title |-> data.Title,
     body |-> DingTalkText(data, content), values |-> << >>, timestamp |-> 0]

GenericPayload(data, content) ==
    [schema |-> "generic", msgtype |-> "", type |-> data.Type, title |-> data.Title,
     body |-> content, values |-> data.Values, timestamp |-> Now]

\* json.Marshal fails on a value it cannot encode.
MarshalOK(payload) == \A i \in 1..Len(payload.values) : payload.values[i] # "chan"

DingTalkFinalURL(u, secret) ==
    IF secret = "" THEN URLString(u)
    ELSE URLString(u)
         \o <<(IF Contains(URLString(u), <<"?">>) THEN "&" ELSE "?"),
              "timestamp=", ToString(NowMs), "&sign=",
              QueryEscape(generateDingTalkSign(secret, NowMs))>>

NoPayload == [schema |-> "none", msgtype |-> "", type |-> << >>, title |-> << >>,
              body |-> << >>, values |-> << >>, timestamp |-> 0]
NoReq  == [mode |-> "none", URL |-> << >>, Headers |-> << >>, Body |-> NoPayload]
NoResp == 0
NoInput == [url |-> [scheme |-> <<"https://">>, host |-> <<"example.com">>,
                     path |-> <<"/robot/send">>, query |-> << >>],
            secret |-> "", data |-> [Type |-> <<"quota_exceed">>, Title |-> << >>,
                                     Content |-> <<"plain">>, Values |-> << >>],
            worker |-> FALSE]
NoLocals == [content |-> << >>, payloadBytes |-> NoPayload, finalWebhookURL |-> << >>,
             validation |-> "none", validatedURL |-> << >>, req |-> NoReq, resp |-> NoResp]

InitWebhookPart ==
    /\ wpc = "idle"
    /\ win = NoInput
    /\ wst = NoLocals
    /\ events = << >>
    /\ ret = "pending"

SignHeaders(u, secret, payloadBytes, worker) ==
    IF secret # "" /\ ~isDingTalkWebhook(u)
      THEN IF worker
             THEN ("X-Webhook-Signature" :> generateSignature(secret, payloadBytes))
                  @@ ("Authorization" :> "Bearer " \o secret)
             ELSE ("X-Webhook-Signature" :> generateSignature(secret, payloadBytes))
      ELSE << >>

StatusOK_Off(code) == code >= 200 /\ code <= 300

\* the negation of `resp.StatusCode < 200 || resp.StatusCode >= 300`
StatusOK(code) == ~(code < 200 \/ code >= 300)

StatusError(code) == "webhook request failed with status code: " \o ToString(code)

\* SendWebhookNotify is entered: the arguments and the worker switch are fixed.
WCall ==
    /\ wpc = "idle"
    /\ \E u \in WebhookURLs, secret \in Secrets, data \in Notifies, worker \in BOOLEAN :
          win' = [url |-> u, secret |-> secret, data |-> data, worker |-> worker]
    /\ wpc' = "entered"
    /\ UNCHANGED <<wst, events, ret, chanVars, clsVars>>

\* Lines 69-133: placeholder substitution, schema selection, marshalling and
\* the final URL.
WBuild ==
    /\ wpc = "entered"
    /\ LET content == Substitute(win.data.Content, win.data.Values)
           payload == IF isDingTalkWebhook(win.url)
                        THEN DingTalkPayload(win.data, content)
                        ELSE GenericPayload(win.data, content)
           final   == IF isDingTalkWebhook(win.url)
                        THEN DingTalkFinalURL(win.url, win.secret)
                        ELSE URLString(win.url)
       IN IF MarshalOK(payload)
            THEN /\ wst' = [wst EXCEPT !.content = content, !.payloadBytes = payload,
                                        !.finalWebhookURL = final]
                 /\ wpc' = "built"
                 /\ UNCHANGED ret
            ELSE /\ wst' = [wst EXCEPT !.content = content]
                 /\ wpc' = "done"
                 /\ ret' = "failed to marshal webhook payload"
    /\ UNCHANGED <<win, events, chanVars, clsVars>>

\* Lines 139-167: the worker request, DoWorkerRequest and the status check.
WWorker ==
    /\ wpc = "built"
    /\ win.worker
    /\ LET req == [mode |-> "worker", URL |-> wst.finalWebhookURL,
                   Headers |-> ("Content-Type" :> "application/json")
                               @@ SignHeaders(win.url, win.secret, wst.payloadBytes, TRUE),
                   Body |-> wst.payloadBytes]
       IN \E failed \in BOOLEAN, code \in RespStatusCodes :
            /\ events' = Append(events, "DoWorkerRequest")
            /\ IF failed
                 THEN /\ wst' = [wst EXCEPT !.req = req]
                      /\ ret' = "failed to send webhook request through worker"
                 ELSE /\ wst' = [wst EXCEPT !.req = req, !.resp = code]
                      /\ ret' = IF StatusOK(code) THEN "nil" ELSE StatusError(code)
    /\ wpc' = "done"
    /\ UNCHANGED <<win, chanVars, clsVars>>

\* Lines 169-173: the SSRF check of the final URL.
WValidate_IgnoreError ==
    /\ wpc = "built"
    /\ ~win.worker
    /\ \E rejected \in BOOLEAN :
          /\ wst' = [wst EXCEPT !.validation = IF rejected THEN "rejected" ELSE "ok",
                                 !.validatedURL = wst.finalWebhookURL]
          /\ events' = Append(events, "ValidateURL")
          /\ wpc' = "validated"
          /\ UNCHANGED ret
    /\ UNCHANGED <<win, chanVars, clsVars>>

WValidate ==
    /\ wpc = "built"
    /\ ~win.worker
    /\ \E rejected \in BOOLEAN :
          /\ wst' = [wst EXCEPT !.validation = IF rejected THEN "rejected" ELSE "ok",
                                 !.validatedURL = wst.finalWebhookURL]
          /\ events' = Append(events, "ValidateURL")
          /\ IF rejected
               THEN wpc' = "done" /\ ret' = "request reject"
               ELSE wpc' = "validated" /\ UNCHANGED ret
    /\ UNCHANGED <<win, chanVars, clsVars>>

\* Lines 175-187: http.NewRequest and the headers.
WNewRequest ==
    /\ wpc = "validated"
    /\ events' = Append(events, "NewRequest")
    /\ IF ParseOK(win.url)
         THEN /\ wst' = [wst EXCEPT !.req =
                   [mode |-> "direct", URL |-> wst.finalWebhookURL,
                    Headers |-> ("Content-Type" :> "application/json")
                                @@ SignHeaders(win.url, win.secret, wst.payloadBytes, FALSE),
                    Body |-> wst.payloadBytes]]
              /\ wpc' = "ready"
              /\ UNCHANGED ret
         ELSE /\ wpc' = "done"
              /\ ret' = "failed to create webhook request"
              /\ UNCHANGED wst
    /\ UNCHANGED <<win, chanVars, clsVars>>

\* Lines 189-200: client.Do and the status check.
WDo ==
    /\ wpc = "ready"
    /\ \E failed \in BOOLEAN, code \in RespStatusCodes :
          /\ events' = Append(events, "Do")
          /\ IF failed
               THEN /\ ret' = "failed to send webhook request"
                    /\ UNCHANGED wst
               ELSE /\ wst' = [wst EXCEPT !.resp = code]
                    /\ ret' = IF StatusOK(code) THEN "nil" ELSE StatusError(code)
    /\ wpc' = "done"
    /\ UNCHANGED <<win, chanVars, clsVars>>

----------------------------------------------------------------------------
(* Specifications *)

InitChannel ==
    /\ chanStatus \in [Channels -> Statuses]
    /\ InitChannelPart
    /\ InitClassifyPart
    /\ InitWebhookPart

NextChannel ==
    \/ \E p \in Procs, channelError \in ChannelErrors :
          DisableChannel(p, channelError) /\ UNCHANGED <<clsVars, webVars>>
    \/ \E p \in Procs, channelId \in Channels :
          EnableChannel(p, channelId) /\ UNCHANGED <<clsVars, webVars>>
    \/ \E p \in Procs : NotifyOnSuccess(p) /\ UNCHANGED <<clsVars, webVars>>

SpecChannel == InitChannel /\ [][NextChannel]_vars

InitQuiet ==
    /\ chanStatus = [c \in Channels |-> ChannelStatusEnabled]
    /\ InitChannelPart
    /\ InitClassifyPart
    /\ InitWebhookPart

NextClassify == CallShouldDisable \/ CallShouldEnable

InitClassify ==
    /\ chanStatus = [c \in Channels |-> ChannelStatusEnabled]
    /\ InitChannelPart
    /\ cls \in DisableCalls \cup EnableCalls
    /\ InitWebhookPart

SpecClassify == InitClassify /\ [][NextClassify]_vars

NextWebhook == WCall \/ WBuild \/ WWorker \/ WValidate \/ WNewRequest \/ WDo

SpecWebhook == InitQuiet /\ [][NextWebhook]_vars

----------------------------------------------------------------------------
(* Properties *)

Started(p) == call[p].op # "none"
\* The key the claimed format gives for caller p's call.
ExpectedKey(p) ==
    <<"channel_update", "_", ToString(call[p].ChannelId), "_",
      IF call[p].op = "disable" THEN "3" ELSE "1">>

\* C1: a DisableChannel call whose ChannelError has AutoBan = false ends without
\* any UpdateChannelStatus call and without any notification, and the step that
\* runs it leaves every stored channel status as it was.
C1_AutoBanOffTouchesNothing ==
    /\ [](\A p \in Procs :
            (call[p].op = "disable" /\ ~call[p].AutoBan) =>
                (storeCalls[p] = 0 /\ notes[p] = << >> /\ pc[p] = "done"))
    /\ [][\A p \in Procs :
            (pc[p] = "idle" /\ call'[p].op = "disable" /\ ~call'[p].AutoBan) =>
                chanStatus' = chanStatus]_vars

\* Witness of C1: such a call has run on a channel that was not yet auto-disabled.
C1_Witness ==
    \E p \in Procs :
        /\ call[p].op = "disable" /\ ~call[p].AutoBan /\ pc[p] = "done"
        /\ chanStatus[call[p].ChannelId] = ChannelStatusEnabled

\* C2: whenever an EnableChannel call moves a channel's stored status to Enabled,
\* the stored status at that moment is exactly AutoDisabled.
C2_EnableOnlyFromAutoDisabled ==
    [][\A p \in Procs :
         (pc[p] = "idle" /\ call'[p].op = "enable" /\ success'[p]) =>
             chanStatus[call'[p].ChannelId] = 3]_vars

\* C3: with the switch on and a non-nil error ShouldDisableChannel returns the
\* verdict of the first matching rule of the priority table (channel-level, then
\* skip-retry, then 401, 403 on Gemini, listed code, listed type, keyword);
\* with the switch off or a nil error it returns false.
C3_FirstMatchingRule ==
    (cls.fn = "disable" /\ cls.done) =>
        LET e == cls.err
            laterRule ==
                \/ e.StatusCode = 401
                \/ e.StatusCode = 403 /\ cls.channelType = 24
                \/ e.Code \in {"invalid_api_key", "account_deactivated", "billing_not_active",
                               "pre_consume_token_quota_failed", "Arrearage"}
                \/ e.Type \in {"insufficient_quota", "insufficient_user_quota",
                               "authentication_error", "permission_error", "forbidden"}
                \/ AcSearch(ToLower(e.Message), cls.keywords)
        IN /\ (~cls.switch \/ e.nil) => cls.result = FALSE
           /\ (cls.switch /\ ~e.nil) =>
                /\ e.channelLevel => cls.result = TRUE
                /\ (~e.channelLevel /\ e.skipRetry) => cls.result = FALSE
                /\ (~e.channelLevel /\ ~e.skipRetry) => cls.result = laterRule

\* Witness of C3: a channel-level error that is also skip-retry was classified.
C3_Witness ==
    /\ cls.fn = "disable" /\ cls.done /\ cls.switch /\ ~cls.err.nil
    /\ cls.err.channelLevel /\ cls.err.skipRetry /\ cls.result = TRUE

\* C4: ShouldEnableChannel returns true exactly when the automatic-enable switch
\* is on, the error is nil and the status is AutoDisabled.
C4_EnableIff ==
    (cls.fn = "enable" /\ cls.done) =>
        (cls.result = (cls.switch /\ cls.err.nil /\ cls.status = 3))

\* Witness of C4: the call returned true.
C4_Witness ==
    /\ cls.fn = "enable" /\ cls.done /\ cls.result = TRUE
    /\ cls.switch /\ cls.err.nil /\ cls.status = ChannelStatusAutoDisabled

\* C5: every DisableChannel call with AutoBan and every EnableChannel call calls
\* the store exactly once and before any notification; once it has returned it
\* has handed over exactly one notification, keyed prefix_channelId_targetStatus,
\* if the store applied the transition, and none if it did not.
C5_OneStoreCallThenAtMostOneNote ==
    \A p \in Procs :
        /\ (Started(p) /\ call[p].AutoBan) => storeCalls[p] = 1
        /\ notes[p] # << >> => (storeCalls[p] = 1 /\ success[p])
        /\ (Started(p) /\ call[p].AutoBan /\ pc[p] = "done") =>
              notes[p] = IF success[p] THEN <<ExpectedKey(p)>> ELSE << >>
        /\ Len(notes[p]) <= 1

\* Witness of C5: a DisableChannel call on channel 5 was applied and notified.
C5_Witness ==
    \E p \in Procs :
        /\ call[p].op = "disable" /\ call[p].AutoBan /\ call[p].ChannelId = 5
        /\ pc[p] = "done" /\ success[p]
        /\ notes[p] = << <<"channel_update", "_", "5", "_", "3">> >>

\* Number of entries of a sequence that equal a key.
Occurrences(seq, key) == Cardinality({i \in 1..Len(seq) : seq[i] = key})

RECURSIVE SumOver(_, _, _)
SumOver(ps, channelId, status) ==
    IF ps = {} THEN 0
    ELSE LET p == CHOOSE q \in ps : TRUE
         IN Occurrences(notes[p], formatNotifyType(channelId, status))
            + SumOver(ps \ {p}, channelId, status)

Notified(channelId, status) == SumOver(Procs, channelId, status)
Applied(channelId, status) ==
    Cardinality({p \in Procs : /\ storeCalls[p] > 0 /\ success[p]
                               /\ call[p].ChannelId = channelId /\ call[p].status = status})

\* C10: under every interleaving of concurrent DisableChannel and EnableChannel
\* calls, the notifications emitted for (channel, status) never outnumber the
\* transitions to that status the store reported as applied, and the two numbers
\* are equal once no call is in progress.
C10_NotificationsMatchAppliedTransitions ==
    \A c \in Channels, s \in {ChannelStatusEnabled, ChannelStatusAutoDisabled} :
        /\ Notified(c, s) <= Applied(c, s)
        /\ (\A p \in Procs : pc[p] # "updated") => Notified(c, s) = Applied(c, s)

\* Witness of C10: a disable and an enable raced on one channel, both were
\* applied, and both calls have finished.
C10_Witness ==
    \E p, q \in Procs :
        /\ call[p].op = "disable" /\ call[q].op = "enable"
        /\ call[p].ChannelId = call[q].ChannelId
        /\ success[p] /\ success[q] /\ pc[p] = "done" /\ pc[q] = "done"

NetworkEvents == {"NewRequest", "Do"}

\* C6: in direct mode the SSRF validator runs on the final URL before any HTTP
\* request is created or sent to that URL, and when it rejects, SendWebhookNotify returns an error without
\* creating or sending a request.
C6_ValidateBeforeRequest ==
    ~win.worker =>
        /\ \A i \in 1..Len(events) :
              events[i] \in NetworkEvents =>
                  /\ \E j \in 1..(i - 1) : events[j] = "ValidateURL"
                  /\ wst.validation = "ok"
                  /\ wst.validatedURL = wst.finalWebhookURL
        /\ wst.req.mode # "none" => wst.req.URL = wst.validatedURL
        /\ wst.validation = "rejected" =>
              /\ wpc = "done" /\ ret \notin {"pending", "nil"}
              /\ wst.req.mode = "none"
              /\ \A i \in 1..Len(events) : events[i] \notin NetworkEvents \cup {"DoWorkerRequest"}

\* Witness of C6: the validator rejected the URL of a direct delivery.
C6_Witness ==
    ~win.worker /\ wst.validation = "rejected" /\ wpc = "done"

\* C7: in both modes a response with status outside 200..299 makes
\* SendWebhookNotify return the error carrying that status, a status inside makes
\* it return nil, and the exchange is attempted at most once per call.
C7_StatusDecidesResult ==
    /\ Cardinality({i \in 1..Len(events) : events[i] \in {"Do", "DoWorkerRequest"}}) <= 1
    /\ (wpc = "done" /\ wst.resp # NoResp) =>
          ret = IF wst.resp >= 200 /\ wst.resp <= 299
                  THEN "nil"
                  ELSE "webhook request failed with status code: " \o ToString(wst.resp)

\* Witness of C7: a worker-relay delivery was answered with status 300.
C7_Witness ==
    wpc = "done" /\ win.worker /\ wst.resp = 300

\* C8: every request built carries X-Webhook-Signature (over the body sent, keyed
\* by the secret) exactly when the secret is non-empty and the destination host is
\* not a chat-bot domain, Authorization: Bearer exactly when that holds in
\* worker-relay mode, and always Content-Type application/json.
C8_SignatureHeaders ==
    wst.req.mode # "none" =>
        LET h == wst.req.Headers
            signed == win.secret # "" /\ win.url.host \notin ChatBotDomains
        IN /\ ("X-Webhook-Signature" \in DOMAIN h) <=> signed
           /\ signed => h["X-Webhook-Signature"] = generateSignature(win.secret, wst.req.Body)
           /\ ("Authorization" \in DOMAIN h) <=> (signed /\ wst.req.mode = "worker")
           /\ "Content-Type" \in DOMAIN h /\ h["Content-Type"] = "application/json"

\* C9: the chat-bot schema is emitted exactly when the host of the webhook URL is
\* a chat-bot domain, whatever the path and query are.
C9_SchemaByHost ==
    wst.payloadBytes.schema # "none" =>
        ((wst.payloadBytes.schema = "dingtalk") <=> (win.url.host \in ChatBotDomains))

====
